---- MODULE Spec2Model ----
(***************************************************************************)
(* Continuous vesting accounts of x/auth (package auth, account.go):       *)
(* the account record, the vesting schedule, SpendableCoins and the        *)
(* delegation / undelegation accounting.                                   *)
(*                                                                         *)
(* sdk.Coins, sdk.Int and sdk.Dec live in the types package, which is not  *)
(* part of the sources at hand; their operators are written from the       *)
(* design document (sections 3.1, 4.1 and 4.3).                            *)
(***************************************************************************)
EXTENDS Integers, Sequences, FiniteSets, TLC

(***************************************************************************)
(* Bounds of the model.                                                    *)
(***************************************************************************)
\* largest amount of one denom in origCoins and in one call's amount
MaxAmount == 2
\* block times range over 0..MaxTime
MaxTime == 3
\* cap on BC(d) + delegated_vesting(d) + delegated_free(d) kept by the guards
MaxLedger == 3
\* largest amount of one denom in origCoins when only the schedule is queried
MaxVesting == 5
\* digits of the fixed-precision decimal (18 in the reference; TLC integers
\* are 32 bits wide, so the model keeps fewer)
DecDigits == 2

\* the denoms, in their lexicographic order
Denoms == <<"atom", "btc">>

DenomSet == {Denoms[i] : i \in 1..Len(Denoms)}

Times == 0..MaxTime

(***************************************************************************)
(* sdk.Int helpers                                                         *)
(***************************************************************************)
MinInt(i1, i2) == IF i1 < i2 THEN i1 ELSE i2

MaxInt(i1, i2) == IF i1 > i2 THEN i1 ELSE i2

(***************************************************************************)
(* sdk.Coin / sdk.Coins: a sequence of coins sorted by denom.              *)
(***************************************************************************)
NewCoin(denom, amount) == [Denom |-> denom, Amount |-> amount]

\* amount_of(denom): 0 if absent
AmountOf(coins, denom) ==
    IF \E i \in DOMAIN coins : coins[i].Denom = denom
    THEN coins[CHOOSE i \in DOMAIN coins : coins[i].Denom = denom].Amount
    ELSE 0

\* the coins holding amt[d] of every denom d, sorted by denom, zeros stripped
Normal(amt) ==
    LET F[i \in 0..Len(Denoms)] ==
            IF i = 0 THEN <<>>
            ELSE LET rest == F[i - 1]
                 IN IF amt[Denoms[i]] # 0
                    THEN Append(rest, NewCoin(Denoms[i], amt[Denoms[i]]))
                    ELSE rest
    IN F[Len(Denoms)]

\* plus(a, b): merges by denom, sums amounts, strips zeros, result sorted
Plus(coins, coinsB) ==
    Normal([d \in DenomSet |-> AmountOf(coins, d) + AmountOf(coinsB, d)])

\* minus(a, b): denom-wise subtraction; fails with NegativeResult if any
\* resulting amount would be < 0 (the minuend is then returned untouched)
Minus(coins, coinsB) ==
    LET diff == [d \in DenomSet |-> AmountOf(coins, d) - AmountOf(coinsB, d)]
    IN IF \E d \in DenomSet : diff[d] < 0
       THEN [err |-> "NegativeResult", coins |-> coins]
       ELSE [err |-> "", coins |-> Normal(diff)]

(***************************************************************************)
(* sdk.Dec: fixed-precision decimals, held as integers scaled by Precision *)
(***************************************************************************)
Precision == 10 ^ DecDigits

\* n / d rounded to the nearest integer, halves away from zero (d # 0)
RoundDiv(n, d) ==
    LET nn == IF d < 0 THEN -n ELSE n
        dd == IF d < 0 THEN -d ELSE d
    IN IF nn >= 0 THEN (2 * nn + dd) \div (2 * dd)
       ELSE -((2 * (-nn) + dd) \div (2 * dd))

NewDec(i) == i * Precision

NewDecFromInt(i) == i * Precision

Quo(d, d2) == RoundDiv(d * Precision, d2)

Mul(d, d2) == RoundDiv(d * d2, Precision)

RoundInt(d) == RoundDiv(d, Precision)

(***************************************************************************)
(* The account: BaseAccount.Coins, BaseVestingAccount.originalVesting,     *)
(* delegatedFree, endTime, ContinuousVestingAccount.delegatedVesting,      *)
(* startTime.                                                              *)
(***************************************************************************)
VARIABLES
    cva,    \* the ContinuousVestingAccount
    call,   \* the name of the last call made on it
    out     \* what that call returned: [err, coins]

vars == <<cva, call, out>>

NewContinuousVestingAccount(origCoins, startTime, endTime) ==
    [Coins            |-> origCoins,
     originalVesting  |-> origCoins,
     delegatedFree    |-> <<>>,
     delegatedVesting |-> <<>>,
     startTime        |-> startTime,
     endTime          |-> endTime]

GetCoins(acc) == acc.Coins

\* GetVestedCoins with a slip: the scalar is taken from the time left to
\* endTime instead of the time passed since startTime
GetVestedCoinsTimeLeft(acc, blockTime) ==
    IF blockTime <= acc.startTime
    THEN [err |-> "", coins |-> <<>>]
    ELSE LET x == acc.endTime - blockTime
             y == acc.endTime - acc.startTime
         IN IF y = 0
            THEN [err |-> "DivisionByZero", coins |-> <<>>]
            ELSE LET s == Quo(NewDec(x), NewDec(y))
                     ov == acc.originalVesting
                     F[i \in 0..Len(ov)] ==
                         IF i = 0 THEN <<>>
                         ELSE LET vestedAmt ==
                                      RoundInt(Mul(NewDecFromInt(ov[i].Amount), s))
                                  vestedCoin == NewCoin(ov[i].Denom, vestedAmt)
                              IN Plus(F[i - 1], <<vestedCoin>>)
                 IN [err |-> "", coins |-> F[Len(ov)]]

\* GetVestedCoins: [err, coins]; a division by zero in Quo panics
GetVestedCoins(acc, blockTime) ==
    IF blockTime <= acc.startTime
    THEN [err |-> "", coins |-> <<>>]
    ELSE LET x == blockTime - acc.startTime
             y == acc.endTime - acc.startTime
         IN IF y = 0
            THEN [err |-> "DivisionByZero", coins |-> <<>>]
            ELSE LET s == Quo(NewDec(x), NewDec(y))
                     ov == acc.originalVesting
                     F[i \in 0..Len(ov)] ==
                         IF i = 0 THEN <<>>
                         ELSE LET vestedAmt ==
                                      RoundInt(Mul(NewDecFromInt(ov[i].Amount), s))
                                  vestedCoin == NewCoin(ov[i].Denom, vestedAmt)
                              IN Plus(F[i - 1], <<vestedCoin>>)
                 IN [err |-> "", coins |-> F[Len(ov)]]

\* GetVestingCoins with a slip: the block time is ignored and the whole
\* original vesting counts as still vesting
GetVestingCoinsTimeless(acc, blockTime) ==
    [err |-> "", coins |-> acc.originalVesting]

\* GetVestingCoins: originalVesting.Minus(GetVestedCoins(blockTime))
GetVestingCoins(acc, blockTime) ==
    LET vested == GetVestedCoins(acc, blockTime)
    IN IF vested.err # ""
       THEN vested
       ELSE Minus(acc.originalVesting, vested.coins)

\* SpendableCoins: [err, coins]
SpendableCoins(acc, blockTime) ==
    LET bc == GetCoins(acc)
        v == GetVestingCoins(acc, blockTime)
        F[i \in 0..Len(bc)] ==
            IF i = 0 THEN <<>>
            ELSE LET baseAmt == bc[i].Amount
                     delVestingAmt == AmountOf(acc.delegatedVesting, bc[i].Denom)
                     vestingAmt == AmountOf(v.coins, bc[i].Denom)
                     min == MinInt(baseAmt + delVestingAmt - vestingAmt, baseAmt)
                     spendableCoin == NewCoin(bc[i].Denom, min)
                 IN IF spendableCoin.Amount # 0
                    THEN Plus(F[i - 1], <<spendableCoin>>)
                    ELSE F[i - 1]
    IN IF v.err # ""
       THEN [err |-> v.err, coins |-> <<>>]
       ELSE [err |-> "", coins |-> F[Len(bc)]]

\* TrackDelegationCoin with a slip: x is taken from the vesting coins
\* without counting what is delegated already
TrackDelegationCoinIgnoresDelegated(st, bc, v, coin) ==
    IF coin.Amount = 0 \/ AmountOf(bc, coin.Denom) < coin.Amount
    THEN st
    ELSE LET x == MinInt(MaxInt(AmountOf(v, coin.Denom), 0), coin.Amount)
             y == coin.Amount - x
             dv == Plus(st.acc.delegatedVesting, <<NewCoin(coin.Denom, x)>>)
             df == Plus(st.acc.delegatedFree, <<NewCoin(coin.Denom, y)>>)
         IN [acc |-> [st.acc EXCEPT
                         !.delegatedVesting = dv,
                         !.delegatedFree = df,
                         !.Coins = Minus(bc, <<coin>>).coins],
             err |-> ""]

\* TrackDelegationCoin with a slip: no test that the base balance covers the
\* coin, and the debit adds the negated coin
TrackDelegationCoinUncovered(st, bc, v, coin) ==
    IF coin.Amount = 0
    THEN st
    ELSE LET vestingAmt == AmountOf(v, coin.Denom)
             delVestingAmt == AmountOf(st.acc.delegatedVesting, coin.Denom)
             x == MinInt(MaxInt(vestingAmt - delVestingAmt, 0), coin.Amount)
             y == coin.Amount - x
             dv == Plus(st.acc.delegatedVesting, <<NewCoin(coin.Denom, x)>>)
             df == Plus(st.acc.delegatedFree, <<NewCoin(coin.Denom, y)>>)
         IN [acc |-> [st.acc EXCEPT
                         !.delegatedVesting = dv,
                         !.delegatedFree = df,
                         !.Coins = Plus(bc, <<NewCoin(coin.Denom, 0 - coin.Amount)>>)],
             err |-> ""]

\* one pass of TrackDelegation's loop; st is [acc, err], bc and v are the
\* values read before the loop
TrackDelegationCoin(st, bc, v, coin) ==
    IF coin.Amount = 0 \/ AmountOf(bc, coin.Denom) < coin.Amount
    THEN st
    ELSE LET vestingAmt == AmountOf(v, coin.Denom)
             delVestingAmt == AmountOf(st.acc.delegatedVesting, coin.Denom)
             x == MinInt(MaxInt(vestingAmt - delVestingAmt, 0), coin.Amount)
             y == coin.Amount - x
             dv == IF x # 0
                   THEN Plus(st.acc.delegatedVesting, <<NewCoin(coin.Denom, x)>>)
                   ELSE st.acc.delegatedVesting
             df == IF y # 0
                   THEN Plus(st.acc.delegatedFree, <<NewCoin(coin.Denom, y)>>)
                   ELSE st.acc.delegatedFree
             m == Minus(bc, <<coin>>)
             acc1 == [st.acc EXCEPT !.delegatedVesting = dv, !.delegatedFree = df]
         IN IF m.err # ""
            THEN [acc |-> acc1, err |-> m.err]
            ELSE [acc |-> [acc1 EXCEPT !.Coins = m.coins], err |-> ""]

\* TrackDelegation: [acc, err]; a panic leaves the fields written so far
TrackDelegation(acc, blockTime, amount) ==
    LET bc == GetCoins(acc)
        v == GetVestingCoins(acc, blockTime)
        F[i \in 0..Len(amount)] ==
            IF i = 0 THEN [acc |-> acc, err |-> ""]
            ELSE LET st == F[i - 1]
                 IN IF st.err # "" THEN st
                    ELSE TrackDelegationCoin(st, bc, v.coins, amount[i])
    IN IF v.err # ""
       THEN [acc |-> acc, err |-> v.err]
       ELSE F[Len(amount)]

\* TrackUndelegationCoin with a slip: the base balance is credited with the
\* part taken from delegatedVesting only, not with the whole coin
TrackUndelegationCoinVestingOnly(st, bc, coin) ==
    IF coin.Amount = 0
    THEN st
    ELSE LET delegatedFree == AmountOf(st.acc.delegatedFree, coin.Denom)
             x == MinInt(delegatedFree, coin.Amount)
             y == coin.Amount - x
             df == IF x # 0
                   THEN Minus(st.acc.delegatedFree, <<NewCoin(coin.Denom, x)>>)
                   ELSE [err |-> "", coins |-> st.acc.delegatedFree]
             acc1 == [st.acc EXCEPT !.delegatedFree = df.coins]
             dv == IF y # 0
                   THEN Minus(acc1.delegatedVesting, <<NewCoin(coin.Denom, y)>>)
                   ELSE [err |-> "", coins |-> acc1.delegatedVesting]
             acc2 == [acc1 EXCEPT !.delegatedVesting = dv.coins]
         IN IF df.err # "" THEN [acc |-> st.acc, err |-> df.err]
            ELSE IF dv.err # "" THEN [acc |-> acc1, err |-> dv.err]
            ELSE [acc |-> [acc2 EXCEPT !.Coins =
                               Plus(bc, <<NewCoin(coin.Denom, y)>>)],
                  err |-> ""]

\* TrackUndelegationCoin with a slip: the part not covered by delegatedFree
\* is added to delegatedVesting instead of subtracted from it
TrackUndelegationCoinAddsVesting(st, bc, coin) ==
    IF coin.Amount = 0
    THEN st
    ELSE LET delegatedFree == AmountOf(st.acc.delegatedFree, coin.Denom)
             x == MinInt(delegatedFree, coin.Amount)
             y == coin.Amount - x
             df == Minus(st.acc.delegatedFree, <<NewCoin(coin.Denom, x)>>)
             dv == Plus(st.acc.delegatedVesting, <<NewCoin(coin.Denom, y)>>)
         IN [acc |-> [st.acc EXCEPT
                         !.delegatedFree = df.coins,
                         !.delegatedVesting = dv,
                         !.Coins = Plus(bc, <<coin>>)],
             err |-> ""]

\* one pass of TrackUndelegation's loop
TrackUndelegationCoin(st, bc, coin) ==
    IF coin.Amount = 0
    THEN st
    ELSE LET delegatedFree == AmountOf(st.acc.delegatedFree, coin.Denom)
             x == MinInt(delegatedFree, coin.Amount)
             y == coin.Amount - x
             df == IF x # 0
                   THEN Minus(st.acc.delegatedFree, <<NewCoin(coin.Denom, x)>>)
                   ELSE [err |-> "", coins |-> st.acc.delegatedFree]
             acc1 == [st.acc EXCEPT !.delegatedFree = df.coins]
             dv == IF y # 0
                   THEN Minus(acc1.delegatedVesting, <<NewCoin(coin.Denom, y)>>)
                   ELSE [err |-> "", coins |-> acc1.delegatedVesting]
             acc2 == [acc1 EXCEPT !.delegatedVesting = dv.coins]
         IN IF df.err # "" THEN [acc |-> st.acc, err |-> df.err]
            ELSE IF dv.err # "" THEN [acc |-> acc1, err |-> dv.err]
            ELSE [acc |-> [acc2 EXCEPT !.Coins = Plus(bc, <<coin>>)], err |-> ""]

\* TrackUndelegation: [acc, err]
TrackUndelegation(acc, amount) ==
    LET bc == GetCoins(acc)
        F[i \in 0..Len(amount)] ==
            IF i = 0 THEN [acc |-> acc, err |-> ""]
            ELSE LET st == F[i - 1]
                 IN IF st.err # "" THEN st
                    ELSE TrackUndelegationCoin(st, bc, amount[i])
    IN F[Len(amount)]

(***************************************************************************)
(* Inputs                                                                  *)
(***************************************************************************)
\* coins in normal form: every amount positive
NormalCoins == {Normal(f) : f \in [DenomSet -> 0..MaxAmount]}

\* the original vesting of the accounts whose schedule is queried
VestingCoins == {Normal(f) : f \in [DenomSet -> 0..MaxVesting]}

\* the coins of the denoms in S with the amounts f, sorted by denom
CoinsOf(S, f) ==
    LET F[i \in 0..Len(Denoms)] ==
            IF i = 0 THEN <<>>
            ELSE IF Denoms[i] \in S
                 THEN Append(F[i - 1], NewCoin(Denoms[i], f[Denoms[i]]))
                 ELSE F[i - 1]
    IN F[Len(Denoms)]

\* amounts handed to the tracking calls: sorted, unique denoms, zero amounts
\* allowed (the loops test for them)
InputCoins ==
    {CoinsOf(S, f) : S \in SUBSET DenomSet, f \in [DenomSet -> 0..MaxAmount]}

\* Q(d) = BC(d) + delegated_vesting(d) + delegated_free(d)
Q(acc, d) ==
    AmountOf(acc.Coins, d) + AmountOf(acc.delegatedVesting, d)
        + AmountOf(acc.delegatedFree, d)

WithinLedger(acc) == \A d \in DenomSet : Q(acc, d) <= MaxLedger

(***************************************************************************)
(* The state machine.  A query leaves the account alone; what it returns   *)
(* is the value of its operator on cva.  A tracking call that panics       *)
(* (err # "") keeps the fields it wrote before the panic.                  *)
(***************************************************************************)
\* the schedules <<startTime, endTime>> of the accounts followed through
\* delegation and undelegation
TrackedSchedules == {<<0, 2>>, <<1, 3>>}

Init ==
    /\ \E origCoins \in NormalCoins, sched \in TrackedSchedules :
          cva = NewContinuousVestingAccount(origCoins, sched[1], sched[2])
    /\ call = "NewContinuousVestingAccount"
    /\ out = [err |-> "", coins |-> <<>>]

TrackDelegationCall ==
    \E t \in Times, amount \in InputCoins :
        \E r \in {TrackDelegation(cva, t, amount)} :
           /\ WithinLedger(r.acc)
           /\ call' = "TrackDelegation"
           /\ out' = [err |-> r.err, coins |-> <<>>]
           /\ cva' = r.acc

TrackUndelegationCall ==
    \E amount \in InputCoins :
        \E r \in {TrackUndelegation(cva, amount)} :
           /\ WithinLedger(r.acc)
           /\ call' = "TrackUndelegation"
           /\ out' = [err |-> r.err, coins |-> <<>>]
           /\ cva' = r.acc

Next ==
    \/ TrackDelegationCall
    \/ TrackUndelegationCall

Spec == Init /\ [][Next]_vars

(***************************************************************************)
(* The schedule and the queries on a freshly constructed account, for      *)
(* every pair of start and end times (the constructor checks neither).     *)
(***************************************************************************)
InitSchedule ==
    /\ \E origCoins \in VestingCoins, startTime \in Times, endTime \in Times :
          cva = NewContinuousVestingAccount(origCoins, startTime, endTime)
    /\ call = "NewContinuousVestingAccount"
    /\ out = [err |-> "", coins |-> <<>>]

GetVestedCoinsCall ==
    \E t \in Times :
        /\ call' = "GetVestedCoins"
        /\ out' = GetVestedCoins(cva, t)
        /\ cva' = cva

GetVestingCoinsCall ==
    \E t \in Times :
        /\ call' = "GetVestingCoins"
        /\ out' = LET r == GetVestingCoins(cva, t)
                  IN IF r.err # "" THEN [err |-> r.err, coins |-> <<>>] ELSE r
        /\ cva' = cva

SpendableCoinsCall ==
    \E t \in Times :
        /\ call' = "SpendableCoins"
        /\ out' = SpendableCoins(cva, t)
        /\ cva' = cva

NextSchedule ==
    \/ GetVestedCoinsCall
    \/ GetVestingCoinsCall
    \/ SpendableCoinsCall

SpecSchedule == InitSchedule /\ [][NextSchedule]_vars

(***************************************************************************)
(* Shorthands of the properties                                            *)
(***************************************************************************)
BC(acc, d) == AmountOf(acc.Coins, d)

DV(acc, d) == AmountOf(acc.delegatedVesting, d)

DF(acc, d) == AmountOf(acc.delegatedFree, d)

OV(acc, d) == AmountOf(acc.originalVesting, d)

\* every coin of amount is covered by the base balance of acc
Covered(acc, amount) ==
    \A i \in DOMAIN amount : amount[i].Amount <= BC(acc, amount[i].Denom)

(***************************************************************************)
(* Properties                                                              *)
(***************************************************************************)

\* C1 - conservation: starting from a fresh account, where BC = OV and both
\* delegated ledgers are empty, BC(d) + delegated_vesting(d) +
\* delegated_free(d) keeps its value OV(d) through every sequence of
\* TrackDelegation and TrackUndelegation calls, multi-denom amounts included.
Conservation ==
    \A d \in DenomSet : Q(cva, d) = OV(cva, d)

\* C2 - delegation bound: after any sequence of tracking calls from the
\* fresh account, delegated_vesting(d) + delegated_free(d) <=
\* original_vesting(d) for every denom d.
DelegationBound ==
    \A d \in DenomSet : DV(cva, d) + DF(cva, d) <= OV(cva, d)

\* C3 - spendable bound: in every state reached by tracking calls made at
\* arbitrary block times, every answer of SpendableCoins(t) has
\* 0 <= spendable(t, d) <= BC(d) for every denom d.
SpendableBound ==
    \A t \in Times :
        LET r == SpendableCoins(cva, t)
        IN r.err = "" =>
              \A d \in DenomSet :
                  /\ 0 <= AmountOf(r.coins, d)
                  /\ AmountOf(r.coins, d) <= BC(cva, d)

\* C4 - spendable formula: every answer of SpendableCoins(t) holds, for each
\* denom d of the base balance, exactly min(max(BC(d) + DV(d) - V(t,d), 0),
\* BC(d)), zero results omitted.
SpendableFormula ==
    \A t \in Times :
        LET r == SpendableCoins(cva, t)
            v == GetVestingCoins(cva, t)
        IN r.err = "" =>
              r.coins = Normal([d \in DenomSet |->
                            MinInt(MaxInt(BC(cva, d) + DV(cva, d)
                                              - AmountOf(v.coins, d), 0),
                                   BC(cva, d))])

\* C5 - TrackDelegation step: after a TrackDelegation(t, D) that returns,
\* every coin (d, Dd) of D with Dd > 0 and BC(d) >= Dd has moved
\* X = min(max(V(t,d) - DV(d), 0), Dd) into delegated_vesting(d) and
\* Y = Dd - X into delegated_free(d), and has taken exactly Dd out of BC(d):
\* for every denom of D, not only the last one.
DelegationStep ==
    \A t \in Times, amount \in InputCoins :
        LET r == TrackDelegation(cva, t, amount)
            v == GetVestingCoins(cva, t)
        IN r.err = "" =>
              \A i \in DOMAIN amount :
                  LET d == amount[i].Denom
                      Dd == amount[i].Amount
                      X == MinInt(MaxInt(AmountOf(v.coins, d) - DV(cva, d), 0), Dd)
                  IN (Dd > 0 /\ BC(cva, d) >= Dd) =>
                         /\ DV(r.acc, d) = DV(cva, d) + X
                         /\ DF(r.acc, d) = DF(cva, d) + (Dd - X)
                         /\ BC(r.acc, d) = BC(cva, d) - Dd

\* C6 - TrackUndelegation drains free first: after a TrackUndelegation(R)
\* that returns, every coin (d, Rd) of R with
\* 0 < Rd <= delegated_free(d) + delegated_vesting(d) has taken
\* X = min(delegated_free(d), Rd) out of delegated_free(d) and Rd - X out of
\* delegated_vesting(d), and has put exactly Rd into BC(d): for every denom
\* of R.
UndelegationStep ==
    \A amount \in InputCoins :
        LET r == TrackUndelegation(cva, amount)
        IN r.err = "" =>
              \A i \in DOMAIN amount :
                  LET d == amount[i].Denom
                      Rd == amount[i].Amount
                      X == MinInt(DF(cva, d), Rd)
                  IN (0 < Rd /\ Rd <= DF(cva, d) + DV(cva, d)) =>
                         /\ DF(r.acc, d) = DF(cva, d) - X
                         /\ DV(r.acc, d) = DV(cva, d) - (Rd - X)
                         /\ BC(r.acc, d) = BC(cva, d) + Rd

\* C7 - over-undelegation is rejected atomically: when some coin (d, Rd) of R
\* has Rd > delegated_free(d) + delegated_vesting(d), TrackUndelegation(R)
\* fails with NegativeResult and leaves the base balance and both delegated
\* ledgers as they were.
OverUndelegationAtomic ==
    \A amount \in InputCoins :
        LET r == TrackUndelegation(cva, amount)
        IN (\E i \in DOMAIN amount :
                amount[i].Amount > DF(cva, amount[i].Denom)
                                       + DV(cva, amount[i].Denom)) =>
              /\ r.err = "NegativeResult"
              /\ r.acc = cva

\* TrackDelegation(t, D) followed by TrackUndelegation(D) on acc; a panic of
\* the first call ends the sequence
RoundTrip(acc, t, amount) ==
    LET r1 == TrackDelegation(acc, t, amount)
    IN IF r1.err # "" THEN r1 ELSE TrackUndelegation(r1.acc, amount)

RoundTripRestores(acc, t, amount) ==
    LET r == RoundTrip(acc, t, amount)
    IN /\ r.err = ""  =>
            /\ r.acc.Coins = acc.Coins
            /\ \A d \in DenomSet :
                   DV(r.acc, d) + DF(r.acc, d) = DV(acc, d) + DF(acc, d)
       /\ r.err # "" => r.acc = acc

\* C8 as stated - round trip: in every reachable state, for every block time
\* t and every amount D, TrackDelegation(t, D) followed by
\* TrackUndelegation(D) restores BC exactly and returns
\* delegated_vesting(d) + delegated_free(d) to its value of before.
RoundTripAny ==
    \A t \in Times, amount \in InputCoins : RoundTripRestores(cva, t, amount)

\* C8 - round trip of a covered amount: in every reachable state, for every
\* block time t and every amount D each of whose coins is covered by the base
\* balance (Dd <= BC(d)), TrackDelegation(t, D) followed by
\* TrackUndelegation(D) restores BC exactly and returns
\* delegated_vesting(d) + delegated_free(d) to its value of before, for every
\* denom d.
RoundTripCovered ==
    \A t \in Times, amount \in InputCoins :
        Covered(cva, amount) => RoundTripRestores(cva, t, amount)

\* a state reached by tracking calls in which a covered two-denom round trip
\* runs through both calls, restores BC and the sums, and leaves the two
\* delegated ledgers different from what they were
RoundTripWitness ==
    /\ call \in {"TrackDelegation", "TrackUndelegation"}
    /\ \E t \in Times, amount \in InputCoins :
          LET r1 == TrackDelegation(cva, t, amount)
              r == RoundTrip(cva, t, amount)
          IN /\ Len(amount) = 2
             /\ \A i \in DOMAIN amount : amount[i].Amount > 0
             /\ Covered(cva, amount)
             /\ r1.err = "" /\ r.err = ""
             /\ r1.acc.Coins # cva.Coins
             /\ r.acc.Coins = cva.Coins
             /\ r.acc.delegatedVesting # cva.delegatedVesting
             /\ r.acc.delegatedFree # cva.delegatedFree

\* C9 - continuous schedule boundaries: with start_time < end_time,
\* GetVestedCoins(t) is zero for every t <= start_time and equals
\* original_vesting for every t >= end_time, so GetVestingCoins(t) is zero for
\* every t >= end_time, and it is never negative for any t.
ScheduleBoundaries ==
    cva.startTime < cva.endTime =>
        \A t \in Times :
            LET vested == GetVestedCoins(cva, t)
                vesting == GetVestingCoins(cva, t)
            IN /\ t <= cva.startTime => vested.coins = <<>>
               /\ t >= cva.endTime =>
                      /\ vested.coins = cva.originalVesting
                      /\ vesting.err = ""
                      /\ vesting.coins = <<>>
               /\ vesting.err = ""
               /\ \A d \in DenomSet : AmountOf(vesting.coins, d) >= 0

\* C10 - vesting monotonicity: with start_time < end_time, for all times
\* t1 <= t2 and every denom d, vested(t1, d) <= vested(t2, d).
VestingMonotone ==
    cva.startTime < cva.endTime =>
        \A t1 \in Times, t2 \in Times, d \in DenomSet :
            t1 <= t2 =>
                AmountOf(GetVestedCoins(cva, t1).coins, d)
                    <= AmountOf(GetVestedCoins(cva, t2).coins, d)

\* GetVestedCoins has answered with a part of the original vesting, and the
\* vested amount of some denom grows twice between start and end
VestingMonotoneWitness ==
    /\ call = "GetVestedCoins"
    /\ cva.startTime < cva.endTime
    /\ \E d \in DenomSet :
          /\ 0 < AmountOf(out.coins, d)
          /\ AmountOf(out.coins, d) < OV(cva, d)
          /\ \E t1 \in Times, t2 \in Times :
                /\ cva.startTime < t1 /\ t1 < t2 /\ t2 < cva.endTime
                /\ 0 < AmountOf(GetVestedCoins(cva, t1).coins, d)
                /\ AmountOf(GetVestedCoins(cva, t1).coins, d)
                       < AmountOf(GetVestedCoins(cva, t2).coins, d)
                /\ AmountOf(GetVestedCoins(cva, t2).coins, d) < OV(cva, d)

\* C11 - post-vesting spendability: with start_time < end_time, for every
\* t >= end_time SpendableCoins(t) answers, and for every denom d with
\* delegated_vesting(d) = 0 and delegated_free(d) = 0 its answer holds
\* spendable(t, d) = BC(d) (OV = BC = 100 atom, start 0, end 100, t = 150
\* gives 100 atom).
PostVestingSpendable ==
    cva.startTime < cva.endTime =>
        \A t \in Times :
            t >= cva.endTime =>
                LET r == SpendableCoins(cva, t)
                IN /\ r.err = ""
                   /\ \A d \in DenomSet :
                          (DV(cva, d) = 0 /\ DF(cva, d) = 0) =>
                              AmountOf(r.coins, d) = BC(cva, d)

(***************************************************************************)
(* The Account interface on the embedded BaseAccount: Address, PubKey,     *)
(* AccountNumber, Sequence and Coins with their setters.                   *)
(***************************************************************************)
\* addresses: the empty one and two set ones
Addresses == {<<>>, <<1>>, <<2>>}

PubKeys == {"nil", "key1"}

Numbers == 0..1

\* the balances given to the constructor and to SetCoins
AccountCoins ==
    {<<>>, <<NewCoin("atom", 1)>>, <<NewCoin("atom", 1), NewCoin("btc", 1)>>}

\* BaseAccount{Address: addr}: the fields of BaseAccount that
\* NewContinuousVestingAccount of this model leaves out
NewBaseAccountWithAddress(addr) ==
    [Address |-> addr, PubKey |-> "nil", AccountNumber |-> 0, Sequence |-> 0]

\* SetAddress with a slip: the test for an address already set is missing
SetAddressOverride(acc, addr) ==
    [acc |-> [acc EXCEPT !.Address = addr], err |-> ""]

\* SetAddress: [acc, err]
SetAddress(acc, addr) ==
    IF Len(acc.Address) # 0
    THEN [acc |-> acc, err |-> "cannot override BaseAccount address"]
    ELSE [acc |-> [acc EXCEPT !.Address = addr], err |-> ""]

SetPubKey(acc, pubKey) ==
    [acc |-> [acc EXCEPT !.PubKey = pubKey], err |-> ""]

SetCoins(acc, coins) ==
    [acc |-> [acc EXCEPT !.Coins = coins], err |-> ""]

SetAccountNumber(acc, accNumber) ==
    [acc |-> [acc EXCEPT !.AccountNumber = accNumber], err |-> ""]

SetSequence(acc, seq) ==
    [acc |-> [acc EXCEPT !.Sequence = seq], err |-> ""]

InitAccount ==
    /\ \E addr \in Addresses, origCoins \in AccountCoins,
          sched \in TrackedSchedules :
          cva = NewBaseAccountWithAddress(addr)
                    @@ NewContinuousVestingAccount(origCoins, sched[1], sched[2])
    /\ call = "NewContinuousVestingAccount"
    /\ out = [err |-> "", coins |-> <<>>]

SetAddressCall ==
    \E addr \in Addresses :
        \E r \in {SetAddress(cva, addr)} :
           /\ call' = "SetAddress"
           /\ out' = [err |-> r.err, coins |-> <<>>]
           /\ cva' = r.acc

SetPubKeyCall ==
    \E pubKey \in PubKeys :
        \E r \in {SetPubKey(cva, pubKey)} :
           /\ call' = "SetPubKey"
           /\ out' = [err |-> r.err, coins |-> <<>>]
           /\ cva' = r.acc

SetCoinsCall ==
    \E coins \in AccountCoins :
        \E r \in {SetCoins(cva, coins)} :
           /\ call' = "SetCoins"
           /\ out' = [err |-> r.err, coins |-> <<>>]
           /\ cva' = r.acc

SetAccountNumberCall ==
    \E accNumber \in Numbers :
        \E r \in {SetAccountNumber(cva, accNumber)} :
           /\ call' = "SetAccountNumber"
           /\ out' = [err |-> r.err, coins |-> <<>>]
           /\ cva' = r.acc

SetSequenceCall ==
    \E seq \in Numbers :
        \E r \in {SetSequence(cva, seq)} :
           /\ call' = "SetSequence"
           /\ out' = [err |-> r.err, coins |-> <<>>]
           /\ cva' = r.acc

NextAccount ==
    \/ SetAddressCall
    \/ SetPubKeyCall
    \/ SetCoinsCall
    \/ SetAccountNumberCall
    \/ SetSequenceCall

SpecAccount == InitAccount /\ [][NextAccount]_vars

\* C12 - set-once address: SetAddress(a) returns an error and leaves the
\* account as it is whenever the current address is non-empty, and succeeds,
\* writing the address alone, only when it is empty; no tracking call writes
\* the address; hence, over every step, an address that is non-empty stays
\* what it is.
AddressSetOnce ==
    /\ [](\A addr \in Addresses :
              LET r == SetAddress(cva, addr)
              IN IF Len(cva.Address) # 0
                 THEN r.err # "" /\ r.acc = cva
                 ELSE /\ r.err = ""
                      /\ r.acc.Address = addr
                      /\ \A f \in DOMAIN cva \ {"Address"} : r.acc[f] = cva[f])
    /\ [](\A t \in Times, amount \in InputCoins :
              /\ TrackDelegation(cva, t, amount).acc.Address = cva.Address
              /\ TrackUndelegation(cva, amount).acc.Address = cva.Address)
    /\ [][Len(cva.Address) # 0 => cva'.Address = cva.Address]_vars

\* SetAddress has just refused to override an address that is set
AddressSetOnceWitness ==
    /\ call = "SetAddress"
    /\ out.err # ""
    /\ Len(cva.Address) # 0

\* ---------------------------------------------------------------------
\* C13. An invalid schedule is rejected at construction: no account exists
\* whose end_time <= start_time, so no vested, vesting or spendable
\* computation ever runs on an interval end_time - start_time that is zero
\* or negative (in particular none divides by zero).
InvalidScheduleRejected ==
    /\ cva.startTime < cva.endTime
    /\ \A t \in Times :
           /\ GetVestedCoins(cva, t).err # "DivisionByZero"
           /\ SpendableCoins(cva, t).err # "DivisionByZero"

\* ---------------------------------------------------------------------
\* Method sets.  A struct type answers the methods declared with it as
\* receiver and the methods promoted from the structs it embeds.

\* the methods the Account interface asks for
Account ==
    {"GetAddress", "SetAddress", "GetPubKey", "SetPubKey",
     "GetAccountNumber", "SetAccountNumber", "GetSequence", "SetSequence",
     "GetCoins", "SetCoins"}

\* the methods the VestingAccount interface asks for
VestingAccount ==
    Account \cup {"SpendableCoins", "TrackDelegation", "TrackUndelegation"}

\* the methods declared with receiver BaseAccount
BaseAccount ==
    {"GetAddress", "SetAddress", "GetPubKey", "SetPubKey", "GetCoins",
     "SetCoins", "GetAccountNumber", "SetAccountNumber", "GetSequence",
     "SetSequence"}

\* BaseVestingAccount embeds BaseAccount and declares no method
BaseVestingAccount == BaseAccount

\* ContinuousVestingAccount embeds BaseVestingAccount
ContinuousVestingAccount ==
    BaseVestingAccount \cup
        {"GetVestedCoins", "GetVestingCoins", "SpendableCoins",
         "TrackDelegation", "TrackUndelegation"}

\* DelayedVestingAccount embeds BaseVestingAccount and declares no method
DelayedVestingAccount == BaseVestingAccount

\* C14. Delayed schedule: a delayed vesting account answers the vesting
\* operations (vested(t) = 0 before end_time and original_vesting from
\* end_time on, hence spendable empty at t = 99 and {100 atom} at t = 100
\* for OV = BC = {100 atom}, end = 100): every operation of VestingAccount
\* that is called on the continuous account is one the delayed account
\* has too.
DelayedSchedule ==
    call \in VestingAccount =>
        /\ call \in ContinuousVestingAccount
        /\ call \in DelayedVestingAccount

\* ---------------------------------------------------------------------
\* C15. The base balance stays non-negative: in every state reached from a
\* freshly constructed account by TrackDelegation and TrackUndelegation
\* calls (any amounts, any block times), BC(d) >= 0 for every denom d.
BaseBalanceNonNegative ==
    \A d \in DenomSet : BC(cva, d) >= 0

\* a delegation has taken the whole base balance of a denom
BaseBalanceNonNegativeWitness ==
    /\ call = "TrackDelegation"
    /\ out.err = ""
    /\ \E d \in DenomSet : OV(cva, d) > 0 /\ BC(cva, d) = 0 /\ Q(cva, d) > 0

\* ---------------------------------------------------------------------
\* C16. Direction of delegated_vesting changes: across every operation,
\* delegated_vesting(d) never decreases in a TrackDelegation step, never
\* increases in a TrackUndelegation step, and is left unchanged by every
\* other operation (the queries, which have value receivers and return
\* coins only, and the setters), whatever the block time.
DelegatedVestingDirection ==
    /\ [][\A d \in DenomSet :
              /\ call' = "TrackDelegation" => DV(cva', d) >= DV(cva, d)
              /\ call' = "TrackUndelegation" => DV(cva', d) <= DV(cva, d)
              /\ call' \notin {"TrackDelegation", "TrackUndelegation"} =>
                     DV(cva', d) = DV(cva, d)]_vars
    /\ [](\A a0 \in Addresses :
              \A acc \in {NewBaseAccountWithAddress(a0) @@ cva} :
                  /\ \A addr \in Addresses :
                         SetAddress(acc, addr).acc.delegatedVesting
                             = cva.delegatedVesting
                  /\ \A pubKey \in PubKeys :
                         SetPubKey(acc, pubKey).acc.delegatedVesting
                             = cva.delegatedVesting
                  /\ \A coins \in AccountCoins :
                         SetCoins(acc, coins).acc.delegatedVesting
                             = cva.delegatedVesting
                  /\ \A n \in Numbers :
                         /\ SetAccountNumber(acc, n).acc.delegatedVesting
                                = cva.delegatedVesting
                         /\ SetSequence(acc, n).acc.delegatedVesting
                                = cva.delegatedVesting)

\* an undelegation has been taken out of delegated_vesting in part
DelegatedVestingDirectionWitness ==
    /\ call = "TrackUndelegation"
    /\ out.err = ""
    /\ \E d \in DenomSet :
           /\ DV(cva, d) > 0
           /\ DF(cva, d) = 0
           /\ BC(cva, d) > 0

\* ---------------------------------------------------------------------
\* TrackDelegation(t1, amount1) followed by TrackDelegation(t2, amount2)
SplitDelegation(acc, t1, amount1, t2, amount2) ==
    LET r1 == TrackDelegation(acc, t1, amount1)
    IN IF r1.err # "" THEN r1 ELSE TrackDelegation(r1.acc, t2, amount2)

SameLedgers(a, b) ==
    /\ a.delegatedVesting = b.delegatedVesting
    /\ a.delegatedFree = b.delegatedFree

\* C17. Time dependence of split delegations: there are an account state,
\* times t1 < t2 and covered amounts D1, D2 for which TrackDelegation(t1, D1)
\* followed by TrackDelegation(t2, D2) ends in other delegated_vesting /
\* delegated_free ledgers than one TrackDelegation of D1 + D2 at t1 or at
\* t2, with the same base balance in all three cases.  Such t1, t2, D1, D2
\* exist in every state that has a denom d with BC(d) >= 2 and
\* delegated_vesting(d) + 2 <= original_vesting(d).
TimeDependence ==
    \A d \in DenomSet :
        (BC(cva, d) >= 2 /\ DV(cva, d) + 2 <= OV(cva, d)) =>
            \E t1, t2 \in Times, n1, n2 \in 1..MaxAmount :
                /\ t1 < t2
                /\ n1 + n2 <= BC(cva, d)
                /\ \E s \in {SplitDelegation(cva, t1, <<NewCoin(d, n1)>>,
                                              t2, <<NewCoin(d, n2)>>)},
                      a \in {TrackDelegation(cva, t1, <<NewCoin(d, n1 + n2)>>)},
                      b \in {TrackDelegation(cva, t2, <<NewCoin(d, n1 + n2)>>)} :
                       /\ s.err = "" /\ a.err = "" /\ b.err = ""
                       /\ ~SameLedgers(s.acc, a.acc)
                       /\ ~SameLedgers(s.acc, b.acc)
                       /\ s.acc.Coins = a.acc.Coins
                       /\ s.acc.Coins = b.acc.Coins

\* the state after such a split: a coin went to delegated_free although
\* delegated_vesting is below the original vesting
TimeDependenceWitness ==
    /\ call = "TrackDelegation"
    /\ out.err = ""
    /\ \E d \in DenomSet :
           /\ DV(cva, d) = 1
           /\ DF(cva, d) = 1
           /\ OV(cva, d) >= 2
           /\ BC(cva, d) = OV(cva, d) - 2

\* ---------------------------------------------------------------------
\* one TrackDelegation call per coin of the amount, in the order given
TrackDelegationEach(acc, blockTime, amount) ==
    LET F[i \in 0..Len(amount)] ==
            IF i = 0 THEN [acc |-> acc, err |-> ""]
            ELSE LET st == F[i - 1]
                 IN IF st.err # "" THEN st
                    ELSE TrackDelegation(st.acc, blockTime, <<amount[i]>>)
    IN F[Len(amount)]

\* one TrackUndelegation call per coin of the amount, in the order given
TrackUndelegationEach(acc, amount) ==
    LET F[i \in 0..Len(amount)] ==
            IF i = 0 THEN [acc |-> acc, err |-> ""]
            ELSE LET st == F[i - 1]
                 IN IF st.err # "" THEN st
                    ELSE TrackUndelegation(st.acc, <<amount[i]>>)
    IN F[Len(amount)]

\* the coins of the amount in every order
Orders(amount) ==
    {[i \in DOMAIN amount |-> amount[p[i]]] : p \in Permutations(DOMAIN amount)}

\* C18. Per-denom independence: a TrackDelegation(t, D) call, and a
\* TrackUndelegation(R) call, whose amount holds several denoms ends in the
\* same base balance, delegated_vesting and delegated_free as one call per
\* coin of the amount, in any order of the coins.
DenomIndependence ==
    \A amount \in InputCoins :
        \A coins \in Orders(amount) :
            /\ \A t \in Times :
                   TrackDelegation(cva, t, amount).acc
                       = TrackDelegationEach(cva, t, coins).acc
            /\ TrackUndelegation(cva, amount).acc
                   = TrackUndelegationEach(cva, coins).acc

\* ---------------------------------------------------------------------
\* the call r of TrackDelegation on acc skipped coin i of the amount and
\* recorded its covered coins
SkipsCoin(acc, r, amount, i) ==
    LET d == amount[i].Denom
    IN /\ r.err = ""
       /\ BC(r.acc, d) = BC(acc, d)
       /\ DV(r.acc, d) = DV(acc, d)
       /\ DF(r.acc, d) = DF(acc, d)
       /\ \A j \in DOMAIN amount :
              LET e == amount[j].Denom
              IN (amount[j].Amount # 0 /\ amount[j].Amount <= BC(acc, e)) =>
                     DV(r.acc, e) + DF(r.acc, e)
                         = DV(acc, e) + DF(acc, e) + amount[j].Amount

\* C19. Silent skip of under-funded denoms: when TrackDelegation(t, D) is
\* called with a coin (d, Dd) such that BC(d) < Dd or Dd = 0, the call
\* raises no error and leaves BC(d), delegated_vesting(d) and
\* delegated_free(d) unchanged, while the covered denoms of D are still
\* recorded in the delegated ledgers.
SilentSkip ==
    \A t \in Times, amount \in InputCoins :
        \A i \in DOMAIN amount :
            (amount[i].Amount = 0 \/ BC(cva, amount[i].Denom) < amount[i].Amount) =>
                \A r \in {TrackDelegation(cva, t, amount)} :
                    SkipsCoin(cva, r, amount, i)

\* ---------------------------------------------------------------------
\* C20. Same-time split equivalence: for a single denom d, a block time t
\* and amounts D1, D2 > 0 with BC(d) >= D1 + D2, TrackDelegation(t, D1) followed
\* by TrackDelegation(t, D2) ends in exactly the same base balance,
\* delegated_vesting and delegated_free as one TrackDelegation(t, D1 + D2).
SameTimeSplit ==
    \A t \in Times, d \in DenomSet, n1, n2 \in 1..MaxAmount :
        n1 + n2 <= BC(cva, d) =>
            \A s \in {SplitDelegation(cva, t, <<NewCoin(d, n1)>>,
                                          t, <<NewCoin(d, n2)>>)},
               a \in {TrackDelegation(cva, t, <<NewCoin(d, n1 + n2)>>)} :
                /\ s.acc.Coins = a.acc.Coins
                /\ SameLedgers(s.acc, a.acc)
                /\ s.err = a.err

\* the account is what a same-time split leaves of a fresh account, the two
\* parts together reaching past the vesting coins into delegated_free
SameTimeSplitWitness ==
    /\ call = "TrackDelegation"
    /\ out.err = ""
    /\ \E t \in Times, d \in DenomSet, n1, n2 \in 1..MaxAmount :
           /\ DV(cva, d) > 0
           /\ DF(cva, d) > 0
           /\ cva = SplitDelegation(
                        NewContinuousVestingAccount(cva.originalVesting,
                                                    cva.startTime, cva.endTime),
                        t, <<NewCoin(d, n1)>>, t, <<NewCoin(d, n2)>>).acc


====
